---- MODULE Spec2Model ----
(***************************************************************************)
(* Model of backend/ml_model.py (class HeartDiseaseModel and the shared    *)
(* instance ml_model) as it is driven by backend/servers.py.               *)
(*                                                                         *)
(* One process owns one HeartDiseaseModel instance (self.model,            *)
(* self.accuracy) and the artifact file at self.model_path.  Callers run   *)
(* load_model() (the startup hook) and predict(features).  Every method is *)
(* split at the points where it reads or writes shared state, so that      *)
(* callers on different threads interleave as the interpreter allows.      *)
(*                                                                         *)
(* Numbers: probabilities are kept as a vote count out of VoteLevels,      *)
(* accuracies as whole percents, oldpeak in tenths.                        *)
(***************************************************************************)
EXTENDS Integers, Sequences, FiniteSets, TLC

(***************************************************************************)
(* Bounds of the model.                                                    *)
(***************************************************************************)
NThreads == 2        \* callers that can be inside the instance at once
MaxObjects == 2      \* classifier objects one process may allocate
VoteLevels == 2      \* resolution of predict_proba: votes / VoteLevels

(***************************************************************************)
(* Program constants.                                                      *)
(***************************************************************************)
NFeatures == 13      \* columns of X in create_sample_data
Sentinel == 85       \* accuracy reported when self.accuracy is not > 0
InitialAccuracy == 0 \* self.accuracy = 0.0 in __init__

Threads == 1..NThreads
None == 0            \* self.model = None; objects are numbered from 1

(***************************************************************************)
(* Inputs.  A feature vector is whatever list the caller passes.           *)
(***************************************************************************)
SpecExample == <<63, 1, 3, 145, 233, 1, 0, 150, 0, 23, 0, 0, 1>>
OutOfDomain == <<-5, 7, 9, 0, -1, 3, 5, 999, 2, -10, 8, 9, 9>>
TooShort == <<63, 1, 3, 145, 233, 1, 0, 150, 0, 23, 0, 0>>
FeatureInputs == {SpecExample, OutOfDomain, TooShort}
NoFeatures == <<>>

\* Vectors a fitted 13-column forest accepts.
ValidInputs == {f \in FeatureInputs : Len(f) = NFeatures}

\* What fitting on the seed-42 data can produce: for each input the share
\* of votes for class 1, and the accuracy on the 20% holdout.
Forests == [ValidInputs -> 0..VoteLevels]
HoldoutAccuracies == {90, 100}
NoVotes == [f \in ValidInputs |-> 0]

VARIABLES
    model,       \* self.model: None or the id of a classifier object
    accuracy,    \* self.accuracy
    heap,        \* classifier objects of this process, by id
    file,        \* the artifact at self.model_path
    forest,      \* the forest that fit() yields on the seed-42 data
    holdout,     \* the holdout accuracy of that forest
    pc,          \* per caller: position in load_model/train_model/predict
    op,          \* per caller: the method that was called
    features,    \* per caller: argument of predict
    caught,      \* per caller: exception caught by load_model's handler
    prediction,  \* per caller: local 'prediction' of predict
    probability, \* per caller: local 'probability[1]' of predict
    used,        \* per caller: objects line 102 and line 103 ran on
    res,         \* per caller: outcome of the last finished call
    trains,      \* train_model invocations in this process
    writes,      \* artifact writes (open 'wb') in this process
    bootFile,    \* the artifact as this process found it when it started
    path,        \* per caller: branch load_model took ("load" or "train")
    snap,        \* per caller: the shared state when the call was made
    coldRace,    \* callers that were in predict together with no model
                 \* in memory and no artifact on disk
    served,      \* outcomes of predict calls made on one loaded model
    rng,         \* state of numpy's global random generator
    returned,    \* the datasets create_sample_data has returned
    calls,       \* create_sample_data invocations
    priors,      \* generator states those invocations started from
    samples,     \* X: sample rows under labelling (lines 41-51)
    labels,      \* y: labels the loop of lines 41-51 has assigned so far
    req,         \* the /predict request the server is handling
    predictions, \* predictions_collection, in insertion order
    response,    \* what the last /predict request was answered with
    users,       \* users_collection
    doctors,     \* doctors_collection
    issued       \* the access tokens created so far

vars == <<model, accuracy, heap, file, forest, holdout, pc, op, features,
          caught, prediction, probability, used, res, trains, writes,
          bootFile, path, snap, coldRace, served,
          rng, returned, calls, priors, samples, labels,
          req, predictions, response, users, doctors, issued>>

shared == <<model, accuracy, heap, file>>
fixed == <<forest, holdout, bootFile>>
genVars == <<rng, returned, calls, priors>>
labelVars == <<samples, labels>>
rest == <<genVars, labelVars>>
apiVars == <<req, predictions, response>>
authVars == <<users, doctors, issued>>
site == <<apiVars, authVars>>

(***************************************************************************)
(* Values.                                                                 *)
(***************************************************************************)
\* A RandomForestClassifier object: unfitted after the constructor, fitted
\* after fit() or when unpickled from a fitted one.  cycle is the
\* train_model invocation of this process that built it (0: built by an
\* earlier process and read from the artifact).
NewClassifier(c) == [fitted |-> FALSE, votes |-> NoVotes, cycle |-> c]

AbsentFile == [kind |-> "absent", fitted |-> FALSE, votes |-> NoVotes, cycle |-> 0]
PartialFile == [kind |-> "partial", fitted |-> FALSE, votes |-> NoVotes, cycle |-> 0]

NoResult == [kind |-> "none", prediction |-> 0, probability |-> 0,
             accuracy |-> 0, err |-> "none", ret |-> FALSE]
NoSnap == [model |-> None, accuracy |-> 0, heap |-> <<>>, file |-> AbsentFile,
           trains |-> 0, writes |-> 0]
Snapshot == [model |-> model, accuracy |-> accuracy, heap |-> heap,
             file |-> file, trains |-> trains, writes |-> writes]

AdminName == 0
NoResponse == [status |-> 0, result |-> 0, accuracy |-> 0, probability |-> 0,
               message |-> "none"]
NoRequest == [stage |-> "idle", role |-> "none", profile |-> FALSE,
              before |-> <<>>, thread |-> 0]

Returned(b) == [NoResult EXCEPT !.kind = "ret", !.ret = b]
Raised(e) == [NoResult EXCEPT !.kind = "error", !.err = e]

(***************************************************************************)
(* Library calls, by what they do.                                         *)
(***************************************************************************)
\* Variant: the file is opened for writing but the object is never dumped.
PickleDumpTruncated(obj) == PartialFile

\* pickle.dump(self.model, f): the bytes hold the whole object.
PickleDump(obj) ==
    [kind |-> "pickle", fitted |-> obj.fitted, votes |-> obj.votes,
     cycle |-> obj.cycle]

\* pickle.load(f) succeeds on a complete pickle only; an empty or
\* truncated file raises.
Decodable(f) == f.kind = "pickle"

PickleLoad(f) == [fitted |-> f.fitted, votes |-> f.votes, cycle |-> f.cycle]

\* np.array(features).reshape(1, -1): one row holding every entry.
Reshape(f) == <<f>>

\* Variant: the inference rejects values outside the documented domains.
InferErrorValidating(m, h, X) ==
    IF m = None THEN "AttributeError"
    ELSE IF ~h[m].fitted THEN "NotFittedError"
    ELSE IF Len(X[1]) # NFeatures THEN "ValueError"
    ELSE IF \E i \in 1..Len(X[1]) : X[1][i] < 0 THEN "ValueError"
    ELSE "none"

\* self.model.predict / predict_proba on the object self.model refers to.
\* m is the reference, h the heap, X the reshaped input.
InferError(m, h, X) ==
    IF m = None THEN "AttributeError"
    ELSE IF ~h[m].fitted THEN "NotFittedError"
    ELSE IF Len(X[1]) # NFeatures THEN "ValueError"
    ELSE "none"

\* predict_proba(X)[0][1]: the share of votes for class 1.
PredictProba(obj, X) == obj.votes[X[1]]

\* predict(X)[0]: the class with the larger share, class 0 on a tie.
Predict(obj, X) == IF 2 * PredictProba(obj, X) > VoteLevels THEN 1 ELSE 0

\* 'accuracy': self.accuracy if self.accuracy > 0 else 85.0
ReportedAccuracy(a) == IF a > 0 THEN a ELSE Sentinel

Idle(t) == pc[t] = "idle"
InFlight == {t \in Threads : ~Idle(t)}

(***************************************************************************)
(* Init: ml_model = HeartDiseaseModel() in a checkout without artifact.    *)
(***************************************************************************)
InitInstance ==
    /\ model = None
    /\ accuracy = InitialAccuracy
    /\ heap = <<>>
    /\ file = AbsentFile
    /\ forest \in Forests
    /\ holdout \in HoldoutAccuracies
    /\ pc = [t \in Threads |-> "idle"]
    /\ op = [t \in Threads |-> "none"]
    /\ features = [t \in Threads |-> NoFeatures]
    /\ caught = [t \in Threads |-> "none"]
    /\ prediction = [t \in Threads |-> 0]
    /\ probability = [t \in Threads |-> 0]
    /\ used = [t \in Threads |-> <<None, None>>]
    /\ res = [t \in Threads |-> NoResult]
    /\ trains = 0
    /\ writes = 0
    /\ bootFile = AbsentFile
    /\ path = [t \in Threads |-> "none"]
    /\ snap = [t \in Threads |-> NoSnap]
    /\ coldRace = {}
    /\ served = {}

\* No create_sample_data call has been made outside train_model.
InitGenerator ==
    /\ rng = 0
    /\ returned = {}
    /\ calls = 0
    /\ priors = {}

InitLabels ==
    /\ samples = <<>>
    /\ labels = <<>>

\* No /predict request has been received; the collection is empty.
InitApi ==
    /\ req = NoRequest
    /\ predictions = <<>>
    /\ response = NoResponse

\* startup_event has created the admin user (lines 60-73).
InitAuth ==
    /\ users = {[username |-> AdminName, role |-> "admin"]}
    /\ doctors = {}
    /\ issued = {}

Init ==
    /\ InitInstance
    /\ InitGenerator
    /\ InitLabels
    /\ InitApi
    /\ InitAuth

(***************************************************************************)
(* Calls.  A call allocates at most one classifier object and runs at most *)
(* one train_model cycle, so a call is admitted while the process has room *)
(* for both.  Idle callers are interchangeable: the lowest one takes the   *)
(* call.                                                                   *)
(***************************************************************************)
CanCall(t) ==
    /\ Idle(t)
    /\ \A u \in Threads : u < t => ~Idle(u)
    /\ Len(heap) + Cardinality(InFlight) < MaxObjects
    /\ trains + Cardinality(InFlight) < MaxObjects

Enter(t, o, f, start) ==
    /\ pc' = [pc EXCEPT ![t] = start]
    /\ op' = [op EXCEPT ![t] = o]
    /\ features' = [features EXCEPT ![t] = f]
    /\ caught' = [caught EXCEPT ![t] = "none"]
    /\ prediction' = [prediction EXCEPT ![t] = 0]
    /\ probability' = [probability EXCEPT ![t] = 0]
    /\ used' = [used EXCEPT ![t] = <<None, None>>]
    /\ res' = [res EXCEPT ![t] = NoResult]
    /\ path' = [path EXCEPT ![t] = "none"]
    /\ snap' = [snap EXCEPT ![t] = Snapshot]
    /\ UNCHANGED <<shared, fixed, rest, trains, writes, served>>

\* ml_model.load_model() from startup_event.
CallLoadModel(t) ==
    /\ CanCall(t)
    /\ Enter(t, "load_model", NoFeatures, "l_exists")
    /\ coldRace' = coldRace \ {t}
    /\ UNCHANGED site

\* ml_model.predict(features): the call itself.
InvokePredict(t) ==
    /\ CanCall(t)
    /\ \E f \in FeatureInputs : Enter(t, "predict", f, "p_check")
    /\ LET others == {u \in InFlight : op[u] = "predict"}
       IN  coldRace' = IF model = None /\ file.kind = "absent" /\ others # {}
                       THEN coldRace \cup others \cup {t}
                       ELSE coldRace \ {t}

\* ml_model.predict(features) by a caller that holds the instance.
CallPredict(t) ==
    /\ InvokePredict(t)
    /\ UNCHANGED site

locals == <<op, features, prediction, probability, used, res>>
ghosts == <<snap, coldRace, served>>

Goto(t, next) == pc' = [pc EXCEPT ![t] = next]

(***************************************************************************)
(* load_model returns b after its handler caught e ("none": nothing        *)
(* raised).  predict ignores the return value and goes on to line 101.     *)
(***************************************************************************)
LoadReturns(t, b, e) ==
    /\ caught' = [caught EXCEPT ![t] = e]
    /\ IF op[t] = "load_model"
       THEN /\ Goto(t, "idle")
            /\ res' = [res EXCEPT ![t] = Returned(b)]
       ELSE /\ Goto(t, "p_label")
            /\ UNCHANGED res

\* Variant: the test of line 97 is inverted.
PredictCheckInverted(t) ==
    /\ pc[t] = "p_check"
    /\ Goto(t, IF model # None THEN "l_exists" ELSE "p_label")
    /\ UNCHANGED <<shared, fixed, rest, site, locals, caught, trains, writes, path, ghosts>>

\* Variant: predict calls load_model whether or not a model is in memory.
PredictCheckAlwaysLoads(t) ==
    /\ pc[t] = "p_check"
    /\ Goto(t, "l_exists")
    /\ UNCHANGED <<shared, fixed, rest, site, locals, caught, trains, writes, path, ghosts>>

\* predict, line 97: if self.model is None: self.load_model()
PredictCheck(t) ==
    /\ pc[t] = "p_check"
    /\ Goto(t, IF model = None THEN "l_exists" ELSE "p_label")
    /\ UNCHANGED <<shared, fixed, rest, site, locals, caught, trains, writes, path, ghosts>>

\* Variant: load_model trains whether or not the artifact exists.
LoadExistsAlwaysTrain(t) ==
    /\ pc[t] = "l_exists"
    /\ Goto(t, "t_construct")
    /\ path' = [path EXCEPT ![t] = "train"]
    /\ UNCHANGED <<shared, fixed, rest, site, locals, caught, trains, writes, ghosts>>

\* load_model, line 81: if os.path.exists(self.model_path)
LoadExists(t) ==
    /\ pc[t] = "l_exists"
    /\ Goto(t, IF file.kind # "absent" THEN "l_read" ELSE "t_construct")
    /\ path' = [path EXCEPT ![t] = IF file.kind # "absent" THEN "load" ELSE "train"]
    /\ UNCHANGED <<shared, fixed, rest, site, locals, caught, trains, writes, ghosts>>

\* Variant: a load that raises falls through to train_model.
LoadReadRetrainsOnError(t) ==
    /\ pc[t] = "l_read"
    /\ IF Decodable(file)
       THEN /\ heap' = Append(heap, PickleLoad(file))
            /\ model' = Len(heap) + 1
            /\ LoadReturns(t, TRUE, "none")
       ELSE /\ UNCHANGED <<heap, model, caught, res>>
            /\ Goto(t, "t_construct")
    /\ UNCHANGED <<accuracy, file, fixed, rest, site, op, features, prediction,
                   probability, used, trains, writes, path, ghosts>>

\* load_model, lines 82-85 and 90-92: open, pickle.load, return True; any
\* exception is logged and turned into return False.
LoadRead(t) ==
    /\ pc[t] = "l_read"
    /\ IF Decodable(file)
       THEN /\ heap' = Append(heap, PickleLoad(file))
            /\ model' = Len(heap) + 1
            /\ LoadReturns(t, TRUE, "none")
       ELSE /\ UNCHANGED <<heap, model>>
            /\ LoadReturns(t, FALSE,
                   IF file.kind = "absent" THEN "FileNotFoundError"
                   ELSE "UnpicklingError")
    /\ UNCHANGED <<accuracy, file, fixed, rest, site, op, features, prediction,
                   probability, used, trains, writes, path, ghosts>>

(***************************************************************************)
(* train_model, reached from load_model line 88.  An exception anywhere in *)
(* it is logged and re-raised (lines 74-76) into load_model's handler,     *)
(* which returns False.                                                    *)
(***************************************************************************)
\* lines 59-62: build the data, then self.model = RandomForestClassifier().
TrainConstruct(t) ==
    /\ pc[t] = "t_construct"
    /\ trains' = trains + 1
    /\ \/ /\ heap' = Append(heap, NewClassifier(trains + 1))
          /\ model' = Len(heap) + 1
          /\ Goto(t, "t_fit")
          /\ UNCHANGED <<caught, res>>
       \/ /\ UNCHANGED <<heap, model>>
          /\ LoadReturns(t, FALSE, "TrainingError")
    /\ UNCHANGED <<accuracy, file, fixed, rest, site, op, features, prediction,
                   probability, used, writes, path, ghosts>>

\* line 63: self.model.fit(X_train, y_train) fits, in place, the object
\* self.model refers to when the line runs.
TrainFit(t) ==
    /\ pc[t] = "t_fit"
    /\ \/ /\ heap' = [heap EXCEPT ![model] =
                         [@ EXCEPT !.fitted = TRUE, !.votes = forest]]
          /\ Goto(t, "t_eval")
          /\ UNCHANGED <<caught, res>>
       \/ /\ UNCHANGED heap
          /\ LoadReturns(t, FALSE, "TrainingError")
    /\ UNCHANGED <<model, accuracy, file, fixed, rest, site, op, features, prediction,
                   probability, used, trains, writes, path, ghosts>>

\* lines 65-66: self.accuracy = accuracy_score(y_test,
\* self.model.predict(X_test)) * 100
TrainEval(t) ==
    /\ pc[t] = "t_eval"
    /\ IF heap[model].fitted
       THEN /\ accuracy' = holdout
            /\ Goto(t, "t_open")
            /\ UNCHANGED <<caught, res>>
       ELSE /\ UNCHANGED accuracy
            /\ LoadReturns(t, FALSE, "NotFittedError")
    /\ UNCHANGED <<model, heap, file, fixed, rest, site, op, features, prediction,
                   probability, used, trains, writes, path, ghosts>>

\* line 69: open(self.model_path, 'wb') truncates the artifact.
TrainOpen(t) ==
    /\ pc[t] = "t_open"
    /\ \/ /\ file' = PartialFile
          /\ writes' = writes + 1
          /\ Goto(t, "t_dump")
          /\ UNCHANGED <<caught, res>>
       \/ /\ UNCHANGED <<file, writes>>
          /\ LoadReturns(t, FALSE, "OSError")
    /\ UNCHANGED <<model, accuracy, heap, fixed, rest, site, op, features, prediction,
                   probability, used, trains, path, ghosts>>

\* lines 70-73: pickle.dump(self.model, f); return self.accuracy, and
\* load_model line 89 returns True.
TrainDump(t) ==
    /\ pc[t] = "t_dump"
    /\ \/ /\ file' = PickleDump(heap[model])
          /\ LoadReturns(t, TRUE, "none")
       \/ /\ UNCHANGED file
          /\ LoadReturns(t, FALSE, "PicklingError")
    /\ UNCHANGED <<model, accuracy, heap, fixed, rest, site, op, features, prediction,
                   probability, used, trains, writes, path, ghosts>>

(***************************************************************************)
(* predict, lines 101-112.  An exception is logged and re-raised.          *)
(***************************************************************************)
\* Bookkeeping for comparing calls: served keeps one outcome, picked among
\* those of the predict calls that found a model in memory, and the outcomes
\* of the later calls with that object and those features; again marks an
\* outcome that was seen more than once.
Served(t, r, b) ==
    [obj |-> snap[t].model, features |-> features[t], res |-> r, again |-> b]

Serve(t, r) ==
    LET same == {a \in served : a.obj = snap[t].model /\ a.features = features[t]}
    IN  IF snap[t].model = None THEN served' = served
        ELSE IF same # {}
        THEN served' = IF \E a \in same : a.res = r
                       THEN (served \ {Served(t, r, FALSE)}) \cup {Served(t, r, TRUE)}
                       ELSE served \cup {Served(t, r, FALSE)}
        ELSE IF served = {} THEN served' \in {{}, {Served(t, r, FALSE)}}
        ELSE served' = served

Raise(t, e) ==
    /\ Goto(t, "idle")
    /\ res' = [res EXCEPT ![t] = Raised(e)]
    /\ Serve(t, Raised(e))

\* lines 101-102: prediction = self.model.predict(features_array)[0]
PredictLabel(t) ==
    /\ pc[t] = "p_label"
    /\ LET X == Reshape(features[t])
           e == InferError(model, heap, X)
       IN  IF e = "none"
           THEN /\ prediction' = [prediction EXCEPT ![t] = Predict(heap[model], X)]
                /\ used' = [used EXCEPT ![t][1] = model]
                /\ Goto(t, "p_proba")
                /\ UNCHANGED <<res, served>>
           ELSE /\ Raise(t, e)
                /\ UNCHANGED <<prediction, used>>
    /\ UNCHANGED <<shared, fixed, rest, site, op, features, caught, probability,
                   trains, writes, path, snap, coldRace>>

\* line 103: probability = self.model.predict_proba(features_array)[0]
PredictProbability(t) ==
    /\ pc[t] = "p_proba"
    /\ LET X == Reshape(features[t])
           e == InferError(model, heap, X)
       IN  IF e = "none"
           THEN /\ probability' = [probability EXCEPT ![t] = PredictProba(heap[model], X)]
                /\ used' = [used EXCEPT ![t][2] = model]
                /\ Goto(t, "p_return")
                /\ UNCHANGED <<res, served>>
           ELSE /\ Raise(t, e)
                /\ UNCHANGED <<probability, used>>
    /\ UNCHANGED <<shared, fixed, rest, site, op, features, caught, prediction,
                   trains, writes, path, snap, coldRace>>

\* Variant: building the result clears the recorded accuracy.
PredictReturnResetsAccuracy(t) ==
    /\ pc[t] = "p_return"
    /\ Goto(t, "idle")
    /\ LET r == [NoResult EXCEPT !.kind = "ok",
                                 !.prediction = prediction[t],
                                 !.probability = probability[t],
                                 !.accuracy = ReportedAccuracy(accuracy)]
       IN  /\ res' = [res EXCEPT ![t] = r]
           /\ Serve(t, r)
    /\ accuracy' = InitialAccuracy
    /\ UNCHANGED <<model, heap, file, fixed, rest, site, op, features, caught, prediction,
                   probability, used, trains, writes, path, snap, coldRace>>

\* lines 105-109: the result dictionary.
PredictReturn(t) ==
    /\ pc[t] = "p_return"
    /\ Goto(t, "idle")
    /\ LET r == [NoResult EXCEPT !.kind = "ok",
                                 !.prediction = prediction[t],
                                 !.probability = probability[t],
                                 !.accuracy = ReportedAccuracy(accuracy)]
       IN  /\ res' = [res EXCEPT ![t] = r]
           /\ Serve(t, r)
    /\ UNCHANGED <<shared, fixed, rest, site, op, features, caught, prediction,
                   probability, used, trains, writes, path, snap, coldRace>>

(***************************************************************************)
(* The process ends (at any point, also inside a call) and a new one       *)
(* starts: module import runs ml_model = HeartDiseaseModel() again.  The   *)
(* artifact stays as it is on disk.                                        *)
(***************************************************************************)
Restart ==
    /\ model' = None
    /\ accuracy' = InitialAccuracy
    /\ heap' = <<>>
    /\ file' = [file EXCEPT !.cycle = 0]
    /\ bootFile' = [file EXCEPT !.cycle = 0]
    /\ pc' = [t \in Threads |-> "idle"]
    /\ op' = [t \in Threads |-> "none"]
    /\ features' = [t \in Threads |-> NoFeatures]
    /\ caught' = [t \in Threads |-> "none"]
    /\ prediction' = [t \in Threads |-> 0]
    /\ probability' = [t \in Threads |-> 0]
    /\ used' = [t \in Threads |-> <<None, None>>]
    /\ res' = [t \in Threads |-> NoResult]
    /\ trains' = 0
    /\ writes' = 0
    /\ path' = [t \in Threads |-> "none"]
    /\ snap' = [t \in Threads |-> NoSnap]
    /\ coldRace' = {}
    /\ served' = {}
    /\ UNCHANGED <<forest, holdout, rest, site>>

Step(t) ==
    \/ PredictCheck(t)
    \/ LoadExists(t)
    \/ LoadRead(t)
    \/ TrainConstruct(t)
    \/ TrainFit(t)
    \/ TrainEval(t)
    \/ TrainOpen(t)
    \/ TrainDump(t)
    \/ PredictLabel(t)
    \/ PredictProbability(t)
    \/ PredictReturn(t)

(***************************************************************************)
(* The server: startup_event and the /predict endpoint are coroutines that *)
(* call the instance without awaiting inside the call, so one call runs at *)
(* a time.                                                                 *)
(***************************************************************************)
Next ==
    \/ \E t \in Threads : InFlight = {} /\ CallLoadModel(t)
    \/ \E t \in Threads : InFlight = {} /\ CallPredict(t)
    \/ \E t \in Threads : Step(t)
    \/ Restart

Spec == Init /\ [][Next]_vars

(***************************************************************************)
(* Callers on several threads share the instance: calls overlap.           *)
(***************************************************************************)
NextThreads ==
    \/ \E t \in Threads : CallLoadModel(t)
    \/ \E t \in Threads : CallPredict(t)
    \/ \E t \in Threads : Step(t)
    \/ Restart

SpecThreads == Init /\ [][NextThreads]_vars

(***************************************************************************)
(* Vocabulary of the properties.                                           *)
(***************************************************************************)
TrainPcs == {"t_construct", "t_fit", "t_eval", "t_open", "t_dump"}
InferPcs == {"p_check", "p_label", "p_proba"}

\* Caller t has finished a predict call and its outcome is in res[t].
PredictDone(t) == Idle(t) /\ op[t] = "predict" /\ res[t].kind # "none"
LoadModelDone(t) == Idle(t) /\ op[t] = "load_model" /\ res[t].kind # "none"

\* The call of t was made with no model in memory and no artifact on disk.
ColdCall(t) == snap[t].model = None /\ snap[t].file.kind = "absent"

\* The call of t was made with a fitted model in memory.
WarmCall(t) == snap[t].model # None /\ snap[t].heap[snap[t].model].fitted

\* The label a forest with the given vote share gives.
LabelOf(v) == IF 2 * v > VoteLevels THEN 1 ELSE 0

(***************************************************************************)
(* C1. Single-flight cold start: among predict calls that are in flight    *)
(* together while no model is in memory and no artifact exists, at most    *)
(* one runs a train+persist cycle, and all their results are computed with *)
(* the model of that one cycle.                                            *)
(***************************************************************************)
C1_SingleFlightColdStart ==
    LET trainers == {t \in coldRace : path[t] = "train" /\ caught[t] = "none"}
    IN  /\ Cardinality(trainers) <= 1
        /\ \A t, u \in coldRace :
              (res[t].kind = "ok" /\ res[u].kind = "ok") =>
                 /\ heap[used[t][1]].cycle = heap[used[u][1]].cycle
                 /\ heap[used[t][2]].cycle = heap[used[u][2]].cycle
                 /\ heap[used[t][1]].cycle = heap[used[t][2]].cycle

(***************************************************************************)
(* C10. Atomic replace: while a train_model run is in progress, a          *)
(* concurrent predict never finds self.model referring to a classifier     *)
(* that is constructed but not fitted.                                     *)
(***************************************************************************)
C10_AtomicReplace ==
    \A t \in Threads :
        (/\ op[t] = "predict"
         /\ pc[t] \in InferPcs
         /\ \E u \in Threads \ {t} : pc[u] \in TrainPcs)
        => (model = None \/ heap[model].fitted)

(***************************************************************************)
(* C2. Self-healing on a missing artifact: a predict call with a           *)
(* 13-entry vector, made with no model in memory and no artifact on disk,  *)
(* whose training and saving raise nothing, has run one train_model cycle, *)
(* has written the fitted model to the artifact and has returned a result. *)
(***************************************************************************)
C2_Case(t) ==
    /\ PredictDone(t)
    /\ ColdCall(t)
    /\ caught[t] = "none"
    /\ Len(features[t]) = NFeatures

C2_SelfHealing ==
    \A t \in Threads :
        C2_Case(t) =>
            /\ res[t].kind = "ok"
            /\ path[t] = "train"
            /\ trains = snap[t].trains + 1
            /\ writes = snap[t].writes + 1
            /\ model # None
            /\ heap[model].fitted
            /\ file.kind = "pickle"
            /\ file.fitted
            /\ file.votes = heap[model].votes

C2_Witness == \E t \in Threads : C2_Case(t) /\ res[t].kind = "ok"

(***************************************************************************)
(* C3. Reload without retrain: in a process that found a readable artifact *)
(* when it started, no train_model cycle runs and the artifact is never    *)
(* written; a finished first call has loaded the artifact's classifier,    *)
(* and predict returns, for a 13-entry vector, the label that the fitted   *)
(* forest of the training process gives to that vector.                    *)
(***************************************************************************)
C3_Case == bootFile.kind = "pickle"

C3_ReloadWithoutRetrain ==
    C3_Case =>
        /\ trains = 0
        /\ writes = 0
        /\ file = bootFile
        /\ \A t \in Threads :
              (PredictDone(t) \/ LoadModelDone(t)) =>
                 /\ path[t] # "train"
                 /\ model # None
                 /\ heap[model].fitted = bootFile.fitted
                 /\ heap[model].votes = bootFile.votes
        /\ \A t \in Threads :
              (PredictDone(t) /\ Len(features[t]) = NFeatures) =>
                 /\ res[t].kind = "ok"
                 /\ res[t].prediction = LabelOf(forest[features[t]])

C3_Witness ==
    /\ C3_Case
    /\ \E t \in Threads :
          /\ PredictDone(t)
          /\ snap[t].model = None
          /\ path[t] = "load"
          /\ res[t].kind = "ok"

(***************************************************************************)
(* C4. Errors during lazy initialization are not swallowed: a predict call *)
(* made with no model in memory and no artifact, whose training or saving  *)
(* raised, fails with that error and returns no result; a load_model call  *)
(* in which something raised does not return True.                         *)
(***************************************************************************)
InitErrors == {"TrainingError", "OSError", "PicklingError"}

C4_InitErrorsSurface ==
    /\ \A t \in Threads :
          (PredictDone(t) /\ ColdCall(t) /\ caught[t] \in InitErrors) =>
              res[t] = Raised(caught[t])
    /\ \A t \in Threads :
          (LoadModelDone(t) /\ caught[t] # "none") => res[t] = Returned(FALSE)

(***************************************************************************)
(* C5. A corrupt artifact is told apart from a missing one: a call made    *)
(* with no model in memory and an artifact that exists but does not decode *)
(* fails with the persistence error raised by the load, runs no training   *)
(* and leaves the artifact as it was; train_model runs only for calls that *)
(* found no artifact.                                                      *)
(***************************************************************************)
PersistenceErrors == {"UnpicklingError", "OSError", "PicklingError"}

CorruptCall(t) ==
    /\ snap[t].model = None
    /\ snap[t].file.kind = "partial"

C5_CorruptIsNotMissing ==
    /\ \A t \in Threads :
          (PredictDone(t) /\ CorruptCall(t)) =>
              /\ res[t].kind = "error"
              /\ res[t].err \in PersistenceErrors
              /\ trains = snap[t].trains
              /\ file = snap[t].file
    /\ \A t \in Threads :
          (LoadModelDone(t) /\ CorruptCall(t)) =>
              /\ res[t] = Returned(FALSE)
              /\ caught[t] \in PersistenceErrors
              /\ trains = snap[t].trains
              /\ file = snap[t].file
    /\ \A t \in Threads :
          pc[t] \in TrainPcs => snap[t].file.kind = "absent"

(***************************************************************************)
(* C6. The accuracy of every result is the holdout accuracy recorded for   *)
(* the model that served it, whether that model was trained in this        *)
(* process or loaded from the artifact, and lies in [0,100].  (Every       *)
(* fitted model that serves a call had its accuracy recorded when it was   *)
(* trained, so the sentinel is never due.)                                 *)
(***************************************************************************)
C6_AccuracyIsRecorded ==
    \A t \in Threads :
        (PredictDone(t) /\ res[t].kind = "ok") =>
            /\ res[t].accuracy = holdout
            /\ res[t].accuracy >= 0
            /\ res[t].accuracy <= 100

(***************************************************************************)
(* C7. No domain validation: a predict call with a 13-entry vector, also   *)
(* one with values outside the documented domains, that ends with a fitted *)
(* model in memory has returned a result whose label is 0 or 1 and whose   *)
(* probability is the model's share of votes for class 1, within [0,1].    *)
(***************************************************************************)
C7_Case(t) ==
    /\ PredictDone(t)
    /\ Len(features[t]) = NFeatures
    /\ model # None
    /\ heap[model].fitted

C7_NoDomainValidation ==
    \A t \in Threads :
        C7_Case(t) =>
            /\ res[t].kind = "ok"
            /\ res[t].prediction \in {0, 1}
            /\ res[t].probability = heap[model].votes[features[t]]
            /\ res[t].probability >= 0
            /\ res[t].probability <= VoteLevels

C7_Witness ==
    \E t \in Threads :
        C7_Case(t) /\ features[t] = OutOfDomain /\ res[t].kind = "ok"

(***************************************************************************)
(* C8. Determinism on a loaded model: all predict calls made with the same *)
(* classifier object in memory and the same features have the same         *)
(* outcome (label, probability and accuracy), whatever calls ran between.  *)
(***************************************************************************)
C8_DeterministicOnLoadedModel ==
    \A a, b \in served :
        (a.obj = b.obj /\ a.features = b.features) => a.res = b.res

C8_Witness ==
    \E a \in served : a.again /\ a.res.kind = "ok"

(***************************************************************************)
(* C9. An inference failure on a loaded model propagates: a predict call   *)
(* made with a fitted model in memory and a vector of the wrong length     *)
(* fails with the error raised by the inference, and the model reference,  *)
(* the classifier objects, the recorded accuracy, the artifact and the     *)
(* numbers of train cycles and artifact writes are as they were when the   *)
(* call was made.                                                          *)
(***************************************************************************)
C9_Case(t) ==
    /\ PredictDone(t)
    /\ WarmCall(t)
    /\ Len(features[t]) # NFeatures

C9_InferenceFailurePropagates ==
    \A t \in Threads :
        C9_Case(t) =>
            /\ res[t] = Raised("ValueError")
            /\ path[t] = "none"
            /\ Snapshot = snap[t]

C9_Witness == \E t \in Threads : C9_Case(t) /\ res[t].kind = "error"

(***************************************************************************)
(* C11. Trained implies persisted: whenever predict has served a result    *)
(* while the model in memory is one that was trained in this process, the  *)
(* artifact at model_path holds that model.                                *)
(***************************************************************************)
C11_TrainedImpliesPersisted ==
    \A t \in Threads :
        (/\ PredictDone(t)
         /\ res[t].kind = "ok"
         /\ model # None
         /\ heap[model].cycle >= 1)
        => (/\ file.kind = "pickle"
            /\ file.fitted
            /\ file.votes = heap[model].votes)

(***************************************************************************)
(* C12. Original statement: a call that finds an artifact that does not    *)
(* decode trains a new model and overwrites the artifact, as a call that   *)
(* finds no artifact does.                                                 *)
(***************************************************************************)
LoadFailedCall(t) ==
    \/ PredictDone(t) /\ CorruptCall(t)
    \/ LoadModelDone(t) /\ snap[t].file.kind = "partial"

C12_CorruptIsRetrained ==
    \A t \in Threads :
        LoadFailedCall(t) =>
            /\ trains = snap[t].trains + 1
            /\ file.kind = "pickle"

(***************************************************************************)
(* C12, amended. A call that finds an artifact that does not decode does   *)
(* not train and does not touch the artifact: load_model catches the       *)
(* error of the load and returns False, the shared state is as it was when *)
(* the call was made, and a predict call that needed the load fails with   *)
(* AttributeError because no model is in memory.                           *)
(***************************************************************************)
C12_CorruptIsNotRetrained ==
    \A t \in Threads :
        LoadFailedCall(t) =>
            /\ path[t] = "load"
            /\ caught[t] = "UnpicklingError"
            /\ Snapshot = snap[t]
            /\ op[t] = "load_model" => res[t] = Returned(FALSE)
            /\ op[t] = "predict" => res[t] = Raised("AttributeError")

C12_Witness ==
    \E t \in Threads :
        /\ PredictDone(t)
        /\ CorruptCall(t)
        /\ res[t].kind = "error"
        /\ file.kind = "partial"

(***************************************************************************)
(* C15. Read-only inference: a predict call made with a model in memory    *)
(* never enters load_model or train_model, and from the call to its end    *)
(* the model reference, the classifier objects, the recorded accuracy and  *)
(* the artifact are as they were when the call was made; load_model and    *)
(* train_model run inside predict only for calls made with no model.       *)
(***************************************************************************)
LoadPcs == {"l_exists", "l_read"}

C15_Case(t) ==
    /\ op[t] = "predict"
    /\ snap[t].model # None
    /\ ~Idle(t) \/ res[t].kind # "none"

C15_ReadOnlyInference ==
    /\ \A t \in Threads :
          C15_Case(t) =>
              /\ pc[t] \notin LoadPcs \cup TrainPcs
              /\ path[t] = "none"
              /\ caught[t] = "none"
              /\ Snapshot = snap[t]
    /\ \A t \in Threads :
          (op[t] = "predict" /\ pc[t] \in LoadPcs \cup TrainPcs) =>
              snap[t].model = None

C15_Witness ==
    \E t \in Threads : C15_Case(t) /\ PredictDone(t) /\ res[t].kind = "ok"

(***************************************************************************)
(* create_sample_data.  numpy's generator is a deterministic machine: a    *)
(* state, a seeding function, a step function and an output function.  Its *)
(* states are folded into RngModulus values; a draw maps the output of the *)
(* state into the requested range and steps the state.  oldpeak            *)
(* (uniform(0, 6)) is held in tenths.                                      *)
(***************************************************************************)
RngModulus == 16
NSamples == 3
MaxCalls == 2

instance == <<shared, fixed, pc, locals, caught, trains, writes, path, ghosts>>

RngStates == 0..(RngModulus - 1)

\* Variant: np.random.seed is missing; the draws go on from the state the
\* generator was in.
SeedRngMissing(s, seed) == s

\* np.random.seed(seed): the state becomes a function of the seed alone.
SeedRng(s, seed) == seed % RngModulus

\* The state after k draws: the generator counts its draws.
Advance(s, k) == (s + k) % RngModulus

NextRng(s) == Advance(s, 1)

\* The raw output of the generator in state s.
RawOutput(s) == (5 * s + 3) % RngModulus

\* One value of randint(low, high) drawn in state s: low <= v < high.
RandInt(s, low, high) ==
    low + ((RawOutput(s) * (high - low)) \div RngModulus)

\* [low, high) of the thirteen columns, in the order of np.column_stack.
ColumnRanges ==
    << <<29, 80>>, <<0, 2>>, <<0, 4>>, <<90, 200>>, <<120, 400>>, <<0, 2>>,
       <<0, 3>>, <<70, 220>>, <<0, 2>>, <<0, 60>>, <<0, 3>>, <<0, 4>>,
       <<0, 4>> >>

\* X[i, j] of the code, with j counted from 0 as the code counts it.
Col(row, j) == row[j + 1]

\* Variant: the chest-pain test reads column 1 (sex) instead of column 2.
RiskScoreWrongColumn(row) ==
    (IF Col(row, 0) > 55 THEN 1 ELSE 0)
    + (IF Col(row, 1) > 1 THEN 1 ELSE 0)
    + (IF Col(row, 3) > 140 THEN 1 ELSE 0)
    + (IF Col(row, 4) > 240 THEN 1 ELSE 0)
    + (IF Col(row, 8) = 1 THEN 1 ELSE 0)
    + (IF Col(row, 9) > 20 THEN 1 ELSE 0)

\* Lines 42-50: risk_score of one row.
RiskScore(row) ==
    (IF Col(row, 0) > 55 THEN 1 ELSE 0)
    + (IF Col(row, 2) > 1 THEN 1 ELSE 0)
    + (IF Col(row, 3) > 140 THEN 1 ELSE 0)
    + (IF Col(row, 4) > 240 THEN 1 ELSE 0)
    + (IF Col(row, 8) = 1 THEN 1 ELSE 0)
    + (IF Col(row, 9) > 20 THEN 1 ELSE 0)

\* Line 51.
SampleLabel(row) == IF RiskScore(row) >= 3 THEN 1 ELSE 0

\* Lines 20-53 started in generator state s: seed, thirteen column draws of
\* NSamples values each, the labelling loop.
SampleData(s) ==
    LET s0 == SeedRng(s, 42)
        data == [i \in 1..NSamples |->
                    [j \in 1..13 |->
                        RandInt(Advance(s0, (j - 1) * NSamples + (i - 1)),
                                ColumnRanges[j][1], ColumnRanges[j][2])]]
    IN  [X |-> data,
         y |-> [i \in 1..NSamples |-> SampleLabel(data[i])],
         rng |-> Advance(s0, 13 * NSamples)]

CreateSampleData ==
    /\ calls < MaxCalls
    /\ LET d == SampleData(rng)
       IN  /\ returned' = returned \cup {[X |-> d.X, y |-> d.y]}
           /\ rng' = d.rng
    /\ calls' = calls + 1
    /\ priors' = priors \cup {rng}
    /\ UNCHANGED <<instance, labelVars, site>>

\* Other code draws from the global generator.
OtherRandomUse ==
    /\ rng' = NextRng(rng)
    /\ UNCHANGED <<returned, calls, priors, instance, labelVars, site>>

InitData ==
    /\ InitInstance
    /\ InitLabels
    /\ InitApi
    /\ InitAuth
    /\ rng \in RngStates
    /\ returned = {}
    /\ calls = 0
    /\ priors = {}

NextData ==
    \/ CreateSampleData
    \/ OtherRandomUse

SpecData == InitData /\ [][NextData]_vars

(***************************************************************************)
(* The labelling loop on rows at the thresholds.  A row takes each of the  *)
(* six tested columns at its threshold or just above it, and the seven     *)
(* other columns from one of three profiles inside the generator's ranges. *)
(***************************************************************************)
OtherProfiles ==
    { <<0, 0, 0, 70, 0, 0, 0>>, <<1, 1, 2, 219, 2, 3, 3>>,
      <<1, 0, 1, 150, 1, 0, 2>> }

BoundaryRows ==
    { <<age, o[1], cp, trestbps, chol, o[2], o[3], o[4], exang, oldpeak,
        o[5], o[6], o[7]>> :
        age \in {55, 56}, cp \in {1, 2}, trestbps \in {140, 141},
        chol \in {240, 241}, exang \in {0, 1}, oldpeak \in {20, 21},
        o \in OtherProfiles }

TestedColumns == {0, 2, 3, 4, 8, 9}

SameTested(r, q) == \A j \in TestedColumns : Col(r, j) = Col(q, j)

InitLabelling ==
    /\ InitInstance
    /\ InitGenerator
    /\ InitApi
    /\ InitAuth
    /\ \E r \in BoundaryRows :
          \E q \in {q \in BoundaryRows : SameTested(r, q)} :
              samples = <<r, q>>
    /\ labels = <<>>

\* One turn of the loop of lines 41-51.
LabelSample ==
    /\ Len(labels) < Len(samples)
    /\ labels' = Append(labels, SampleLabel(samples[Len(labels) + 1]))
    /\ UNCHANGED <<samples, instance, genVars, site>>

NextLabelling == LabelSample

SpecLabelling == InitLabelling /\ [][NextLabelling]_vars

(***************************************************************************)
(* C13. Labelling rule: a sample's label is 1 exactly when at least three  *)
(* of age > 55, cp > 1, trestbps > 140, chol > 240, exang = 1 and          *)
(* oldpeak > 2 hold of it, and two samples that agree on these six fields  *)
(* have the same label whatever their other seven fields are.              *)
(***************************************************************************)
FieldNames ==
    <<"age", "sex", "cp", "trestbps", "chol", "fbs", "restecg", "thalach",
      "exang", "oldpeak", "slope", "ca", "thal">>

Field(row, name) == row[CHOOSE j \in 1..13 : FieldNames[j] = name]

RiskFactors(row) ==
    {n \in {"age", "cp", "trestbps", "chol", "exang", "oldpeak"} :
        CASE n = "age" -> Field(row, n) > 55
          [] n = "cp" -> Field(row, n) > 1
          [] n = "trestbps" -> Field(row, n) > 140
          [] n = "chol" -> Field(row, n) > 240
          [] n = "exang" -> Field(row, n) = 1
          [] n = "oldpeak" -> Field(row, n) > 20}

C13_LabellingRule ==
    /\ \A i \in 1..Len(labels) :
          labels[i] = 1 <=> Cardinality(RiskFactors(samples[i])) >= 3
    /\ \A i, k \in 1..Len(labels) :
          (\A n \in {"age", "cp", "trestbps", "chol", "exang", "oldpeak"} :
              Field(samples[i], n) = Field(samples[k], n))
          => labels[i] = labels[k]

C13_Witness ==
    /\ Len(labels) = 2
    /\ samples[1] # samples[2]
    /\ Cardinality(RiskFactors(samples[1])) = 3
    /\ labels[1] = 1

(***************************************************************************)
(* C14. Generator determinism: every invocation of create_sample_data      *)
(* returns the same NSamples rows and labels, whatever state the global    *)
(* generator was in before the call and however many calls came before.    *)
(***************************************************************************)
C14_GeneratorDeterminism ==
    /\ Cardinality(returned) <= 1
    /\ calls > 0 => Cardinality(returned) = 1
    /\ \A d \in returned :
          /\ DOMAIN d.X = 1..NSamples
          /\ DOMAIN d.y = 1..NSamples

C14_Witness ==
    /\ calls = MaxCalls
    /\ Cardinality(priors) = MaxCalls
    /\ Cardinality(returned) = 1

(***************************************************************************)
(* The /predict endpoint (servers.py, predict_heart_disease).  One request *)
(* is handled at a time; the call of ml_model.predict inside it is the     *)
(* call of the instance modelled above.  startup_event calls load_model    *)
(* before the server takes requests.                                       *)
(***************************************************************************)
MaxRecords == 2

Roles == {"patient", "doctor", "admin"}

HttpError(code) == [NoResponse EXCEPT !.status = code]

\* Variant: the role test of lines 323-324 is missing.
PredictRequestAnyRole ==
    /\ req.stage \in {"idle", "done"}
    /\ InFlight = {}
    /\ Len(predictions) < MaxRecords
    /\ \E role \in Roles, profile \in BOOLEAN :
          LET r == [NoRequest EXCEPT !.role = role, !.profile = profile,
                                     !.before = predictions]
          IN  IF ~profile
              THEN /\ req' = [r EXCEPT !.stage = "done"]
                   /\ response' = HttpError(404)
              ELSE /\ req' = [r EXCEPT !.stage = "accepted"]
                   /\ response' = NoResponse
    /\ UNCHANGED <<predictions, instance, rest, authVars>>

\* Lines 323-329: a request of a user with the given role, with or without
\* a patient profile, is rejected with 403 or 404 or goes on.
PredictRequest ==
    /\ req.stage \in {"idle", "done"}
    /\ InFlight = {}
    /\ Len(predictions) < MaxRecords
    /\ \E role \in Roles, profile \in BOOLEAN :
          LET r == [NoRequest EXCEPT !.role = role, !.profile = profile,
                                     !.before = predictions]
          IN  IF role # "patient"
              THEN /\ req' = [r EXCEPT !.stage = "done"]
                   /\ response' = HttpError(403)
              ELSE IF ~profile
              THEN /\ req' = [r EXCEPT !.stage = "done"]
                   /\ response' = HttpError(404)
              ELSE /\ req' = [r EXCEPT !.stage = "accepted"]
                   /\ response' = NoResponse
    /\ UNCHANGED <<predictions, instance, rest, authVars>>

\* Lines 331-349: result = ml_model.predict(features).
EndpointPredict(t) ==
    /\ req.stage = "accepted"
    /\ InvokePredict(t)
    /\ req' = [req EXCEPT !.stage = "predicting", !.thread = t]
    /\ UNCHANGED <<predictions, response, authVars>>

\* Line 363.
Message(result) ==
    IF result = 0 THEN "You are healthy"
    ELSE "You may have heart disease. Please consult a doctor."

\* Lines 351-372 once predict has returned; an exception of predict leaves
\* the handler at line 349 and the request is answered with status 500.
EndpointReturn ==
    /\ req.stage = "predicting"
    /\ PredictDone(req.thread)
    /\ LET result == res[req.thread]
       IN  IF result.kind = "ok"
           THEN /\ predictions' =
                      Append(predictions,
                             [result |-> result.prediction,
                              accuracy |-> result.accuracy,
                              probability |-> result.probability])
                /\ response' = [status |-> 200,
                                result |-> result.prediction,
                                accuracy |-> result.accuracy,
                                probability |-> result.probability,
                                message |-> Message(result.prediction)]
           ELSE /\ response' = HttpError(500)
                /\ UNCHANGED predictions
    /\ req' = [req EXCEPT !.stage = "done"]
    /\ UNCHANGED <<instance, rest, authVars>>

NextApi ==
    \/ \E t \in Threads : InFlight = {} /\ req.stage = "idle" /\ CallLoadModel(t)
    \/ PredictRequest
    \/ \E t \in Threads : EndpointPredict(t)
    \/ \E t \in Threads : Step(t)
    \/ EndpointReturn

SpecApi == Init /\ [][NextApi]_vars

(***************************************************************************)
(* C16. The endpoint stores a prediction record only after ml_model.predict*)
(* has returned a result for a caller with role patient and a patient      *)
(* profile: while the request is being handled and when it was answered    *)
(* with an error (caller not a patient, no profile, predict raised) the    *)
(* collection is as the request found it; a request answered with 200 has  *)
(* appended one record whose result, probability and accuracy are those of *)
(* the response, and the message is "You are healthy" exactly when the     *)
(* result is 0.                                                            *)
(***************************************************************************)
C16_StoredOnlyAfterPredict ==
    /\ req.stage \in {"accepted", "predicting"} =>
          /\ req.role = "patient" /\ req.profile
          /\ predictions = req.before
    /\ req.stage = "done" =>
          /\ response.status = 200 <=>
                /\ req.role = "patient"
                /\ req.profile
                /\ res[req.thread].kind = "ok"
          /\ response.status # 200 => predictions = req.before
          /\ response.status = 200 =>
                /\ Len(predictions) = Len(req.before) + 1
                /\ SubSeq(predictions, 1, Len(req.before)) = req.before
                /\ LET stored == predictions[Len(predictions)]
                   IN  /\ stored.result = response.result
                       /\ stored.probability = response.probability
                       /\ stored.accuracy = response.accuracy
                       /\ stored.result = res[req.thread].prediction
                /\ response.message = "You are healthy" <=> response.result = 0

C16_Witness ==
    /\ req.stage = "done"
    /\ response.status = 200
    /\ response.result = 1
    /\ Len(req.before) = 1

(***************************************************************************)
(* Accounts (servers.py: register, login, create_doctor,                   *)
(* update_doctor_status).  A collection is the set of its documents; a     *)
(* user is named by its username, 0 being "admin".                         *)
(***************************************************************************)
NUsers == 2

Usernames == 1..NUsers

User(u) == {d \in users : d.username = u}
DoctorOf(u) == {d \in doctors : d.user_id = u}

\* create_access_token(data = {sub, role}); pending records whether the
\* user's doctor profile had status 0 when the token was created.
Token(u, role, ds) ==
    [sub |-> u, role |-> role,
     pending |-> role = "doctor" /\ \E d \in ds : d.user_id = u /\ d.status = 0]

\* get_current_user for some token created so far: the user it names.
CurrentUsers == {d \in users : \E k \in issued : k.sub = d.username}

\* POST /auth/register, lines 93-137.
Register(u, role) ==
    /\ User(u) = {}
    /\ users' = users \cup {[username |-> u, role |-> role]}
    /\ doctors' = IF role = "doctor"
                  THEN doctors \cup {[user_id |-> u, status |-> 0]}
                  ELSE doctors
    /\ issued' = issued \cup {Token(u, role, doctors')}
    /\ UNCHANGED <<instance, rest, apiVars>>

\* POST /auth/login, lines 139-164, with the right or a wrong password.
Login(u, password) ==
    /\ \E user \in User(u) :
          IF /\ password
             /\ ~(user.role = "doctor"
                  /\ \E d \in DoctorOf(u) : d.status = 0)
          THEN issued' = issued \cup {Token(u, user.role, doctors)}
          ELSE UNCHANGED issued
    /\ UNCHANGED <<users, doctors, instance, rest, apiVars>>

\* POST /doctors by an admin, lines 186-231.
CreateDoctor(u) ==
    /\ \E c \in CurrentUsers : c.role = "admin"
    /\ User(u) = {}
    /\ users' = users \cup {[username |-> u, role |-> "doctor"]}
    /\ doctors' = doctors \cup {[user_id |-> u, status |-> 1]}
    /\ UNCHANGED <<issued, instance, rest, apiVars>>

\* PUT /doctors/{doctor_id}/status by an admin, lines 283-299.
UpdateDoctorStatus(u) ==
    /\ \E c \in CurrentUsers : c.role = "admin"
    /\ \E d \in DoctorOf(u) :
          LET new_status == IF d.status = 1 THEN 0 ELSE 1
          IN  doctors' = (doctors \ {d})
                             \cup {[user_id |-> u, status |-> new_status]}
    /\ UNCHANGED <<users, issued, instance, rest, apiVars>>

NextAuth ==
    \/ \E u \in Usernames, role \in Roles : Register(u, role)
    \/ \E u \in Usernames \cup {AdminName}, password \in BOOLEAN :
          Login(u, password)
    \/ \E u \in Usernames : CreateDoctor(u)
    \/ \E u \in Usernames : UpdateDoctorStatus(u)

SpecAuth == Init /\ [][NextAuth]_vars

(***************************************************************************)
(* C17. No access token is created for a doctor whose doctor profile has   *)
(* status 0 at that moment, over any sequence of register, login,          *)
(* create_doctor and update_doctor_status.                                 *)
(***************************************************************************)
C17_NoTokenForPendingDoctor ==
    \A k \in issued : ~(k.role = "doctor" /\ k.pending)

====
